---- MODULE Spec2Model ----
(***************************************************************************)
(* A model of the RAG chatbot: config_loader.load_config, the ingestion    *)
(* script ingest.run_ingestion and the Streamlit page script main_app,     *)
(* which share the rag_documents table of one Oracle database.             *)
(***************************************************************************)
EXTENDS Integers, Sequences, FiniteSets, TLC

(***************************************************************************)
(* Bounds of the model.                                                    *)
(***************************************************************************)
MaxRuns == 2
MaxReruns == 3

(***************************************************************************)
(* config_loader.py                                                        *)
(***************************************************************************)
\* What os.getenv returns for a variable that is not set.
None == "None"

\* The values a variable takes in the model: unset, set to the empty string,
\* set to a non-empty string.
EnvValues == {None, "", "v"}

OciKeys == <<"user", "tenancy", "region", "fingerprint", "key_file", "compartment_id">>
DbKeys == <<"DB_USER", "DB_PASSWORD", "DB_DSN">>

\* The environment variable each key of the two dictionaries is read from.
EnvVarOf(key) ==
    CASE key = "user" -> "OCI_USER_ID"
      [] key = "tenancy" -> "OCI_TENANCY_ID"
      [] key = "region" -> "OCI_REGION"
      [] key = "fingerprint" -> "OCI_KEY_FINGERPRINT"
      [] key = "key_file" -> "OCI_PRIVATE_KEY_PATH"
      [] key = "compartment_id" -> "COMPARTMENT_ID"
      [] OTHER -> key

Range(s) == {s[i] : i \in DOMAIN s}

EnvVars == {EnvVarOf(k) : k \in Range(OciKeys) \cup Range(DbKeys)}

\* Python's truth value of an os.getenv result: None and "" are false.
Truthy(value) == value /= None /\ value /= ""

oci_config(e) == [k \in Range(OciKeys) |-> e[EnvVarOf(k)]]
db_config(e) == [k \in Range(DbKeys) |-> e[EnvVarOf(k)]]

\* The keys of a dictionary whose value fails `if not value`, in dictionary order.
MissingKeys(keys, dict) == SelectSeq(keys, LAMBDA k : ~Truthy(dict[k]))

\* A variant of CheckKeys that tests `value is None` in place of `not value`.
CheckKeysIsNone(keys, dict) == SelectSeq(keys, LAMBDA k : dict[k] = None)

\* The validation loop `for key, value in d.items(): if not value: raise`.
CheckKeys(keys, dict) == MissingKeys(keys, dict)

\* load_config: the pair of dictionaries, or the ValueError of the first key
\* that fails validation (the OCI keys are checked before the DB keys).
load_config(e) ==
    LET oci == oci_config(e)
        db == db_config(e)
        badOci == CheckKeys(OciKeys, oci)
        badDb == CheckKeys(DbKeys, db)
    IN  IF badOci /= <<>>
        THEN [raised |-> "ValueError", key |-> badOci[1], oci |-> <<>>, db |-> <<>>]
        ELSE IF badDb /= <<>>
        THEN [raised |-> "ValueError", key |-> badDb[1], oci |-> <<>>, db |-> <<>>]
        ELSE [raised |-> "none", key |-> "", oci |-> oci, db |-> db]

NotCalled == [raised |-> "not_called", key |-> "", oci |-> <<>>, db |-> <<>>]

(***************************************************************************)
(* The ./data folder and the rag_documents table.                          *)
(***************************************************************************)
\* The .txt files that may lie in ./data; "empty.txt" has no characters.
Docs == {"a.txt", "b.txt", "empty.txt"}

\* RecursiveCharacterTextSplitter.split_documents on one document: a long
\* document gives several chunks, an empty one gives none.  A chunk keeps the
\* file it came from as metadata['source'].
ChunksOf(d) ==
    CASE d = "a.txt" -> {[source |-> "a.txt", part |-> 1], [source |-> "a.txt", part |-> 2]}
      [] d = "b.txt" -> {[source |-> "b.txt", part |-> 1]}
      [] OTHER -> {}

AllChunks == UNION {ChunksOf(d) : d \in Docs}

\* The contents of ./data the model runs the script on: nothing, one long
\* document, two documents, only an empty file.
Folders == {{}, {"a.txt"}, {"a.txt", "b.txt"}, {"empty.txt"}}

\* The rows of the table: how many copies of each chunk it holds.
NoRows == [c \in AllChunks |-> 0]

RECURSIVE SumOver(_, _)
SumOver(f, S) ==
    IF S = {} THEN 0
    ELSE LET x == CHOOSE y \in S : TRUE IN f[x] + SumOver(f, S \ {x})

\* SELECT COUNT(*) FROM rag_documents on an existing table.
CountRows(r) == SumOver(r, AllChunks)

VARIABLES
    env,          \* the environment after load_dotenv(): variable -> value
    cfgOut,       \* config_loader run as a script: what load_config gave
    tableExists,  \* whether rag_documents exists
    rows,         \* its rows (NoRows when it does not exist)
    ipc,          \* run_ingestion: the step about to run
    runs,         \* how many times ingest.py has been started
    documents,    \* run_ingestion: loader.load()
    chunks,       \* run_ingestion: text_splitter.split_documents(documents)
    calls,        \* run_ingestion: the steps attempted in this run, in order
    exc,          \* run_ingestion: the exception being propagated
    exitStatus,   \* ingest.py: its exit status once it has ended
    count,        \* run_ingestion: the verification count of step 9
    cache,        \* st.cache_resource: what initialize_services returned
    created,      \* how many of each service object the server has created
    apc,          \* the page script: where the current run is
    reruns,       \* how many times the page script has been run
    widgets,      \* whether the page shows the text input and the button
    user_question,\* st.text_input of the current run
    ask_button,   \* st.button of the current run
    history,      \* the questions asked on earlier runs of the session
    services,     \* the (qa_chain, vector_store) pair of the current run
    invocations,  \* the arguments of qa_chain.invoke in the current run
    response,     \* what qa_chain.invoke returned in the current run
    ui            \* what the current run has put on the page

dbVars == <<tableExists, rows>>
ingestVars == <<ipc, runs, documents, chunks, calls, exc, exitStatus, count>>
appVars == <<cache, created, apc, reruns, widgets, user_question, ask_button, history,
             services, invocations, response, ui>>
vars == <<env, cfgOut, dbVars, ingestVars, appVars>>

(***************************************************************************)
(* ingest.py: run_ingestion                                                *)
(***************************************************************************)
NoStatus == -1

\* A step raised: control goes to `except Exception as e` of run_ingestion.
Raise(step, e) ==
    /\ ipc' = "except"
    /\ exc' = e
    /\ calls' = Append(calls, step)

\* A step returned: control goes to the next step.
Goto(step, next) ==
    /\ ipc' = next
    /\ calls' = Append(calls, step)
    /\ exc' = exc

\* `python ingest.py`: a new process, whose locals are fresh.
StartIngestion ==
    /\ ipc \in {"idle", "done", "exited"}
    /\ runs < MaxRuns
    /\ runs' = runs + 1
    /\ ipc' = "step1"
    /\ documents' = {}
    /\ chunks' = {}
    /\ calls' = <<>>
    /\ exc' = "none"
    /\ exitStatus' = NoStatus
    /\ count' = NoStatus
    /\ UNCHANGED <<appVars, env, cfgOut, dbVars>>

\* Step 1: config_loader.load_config().
Step1LoadConfig ==
    /\ ipc = "step1"
    /\ IF load_config(env).raised = "none"
       THEN Goto("load_config", "step2")
       ELSE Raise("load_config", "ValueError")
    /\ UNCHANGED <<appVars, env, cfgOut, dbVars, runs, documents, chunks, exitStatus, count>>

\* Step 2: DirectoryLoader("./data").load(); no documents is sys.exit(1), a
\* SystemExit that `except Exception` does not catch.
Step2LoadDocuments ==
    /\ ipc = "step2"
    /\ \/ \E docs \in Folders :
            /\ documents' = docs
            /\ IF docs = {}
               THEN /\ ipc' = "exited"
                    /\ exitStatus' = 1
                    /\ calls' = Append(calls, "load")
                    /\ exc' = exc
               ELSE /\ Goto("load", "step3")
                    /\ exitStatus' = exitStatus
       \/ /\ Raise("load", "Exception")
          /\ UNCHANGED <<documents, exitStatus>>
    /\ UNCHANGED <<appVars, env, cfgOut, dbVars, runs, chunks, count>>

\* Step 3: split_documents, then the print of the average chunk size, which
\* divides by len(chunks).
Step3Split ==
    /\ ipc = "step3"
    /\ \/ LET cs == UNION {ChunksOf(d) : d \in documents}
          IN  /\ chunks' = cs
              /\ IF cs = {}
                 THEN Raise("split", "ZeroDivisionError")
                 ELSE Goto("split", "step4")
       \/ /\ Raise("split", "Exception")
          /\ chunks' = chunks
    /\ UNCHANGED <<appVars, env, cfgOut, dbVars, runs, documents, exitStatus, count>>

\* Step 4: OCIGenAIEmbeddings(...).
Step4Embeddings ==
    /\ ipc = "step4"
    /\ \/ Goto("embed", "step5")
       \/ Raise("embed", "Exception")
    /\ UNCHANGED <<appVars, env, cfgOut, dbVars, runs, documents, chunks, exitStatus, count>>

\* Step 5: oracledb.connect(...).
Step5Connect ==
    /\ ipc = "step5"
    /\ \/ Goto("connect", "step6")
       \/ Raise("connect", "DatabaseError")
    /\ UNCHANGED <<appVars, env, cfgOut, dbVars, runs, documents, chunks, exitStatus, count>>

\* OracleVS(client, embedding_function, table_name): creates the table when it
\* does not exist.
OracleVSInit ==
    /\ tableExists' = TRUE
    /\ rows' = rows

\* Step 6: vector_store = OracleVS(...).
Step6VectorStore ==
    /\ ipc = "step6"
    /\ \/ /\ Goto("vector_store", "step7")
          /\ OracleVSInit
       \/ /\ Raise("vector_store", "Exception")
          /\ UNCHANGED dbVars
    /\ UNCHANGED <<appVars, env, cfgOut, runs, documents, chunks, exitStatus, count>>

\* `except oracledb.DatabaseError`: whatever made the DROP fail, the run goes on.
DropFailed ==
    /\ Goto("drop", "step8")
    /\ UNCHANGED dbVars

\* Step 7: DROP TABLE rag_documents PURGE, inside its own try.
Step7DropTable ==
    /\ ipc = "step7"
    /\ \/ /\ tableExists
          /\ Goto("drop", "step8")
          /\ tableExists' = FALSE
          /\ rows' = NoRows
       \/ DropFailed
       \/ /\ Raise("drop", "Exception")
          /\ UNCHANGED dbVars
    /\ UNCHANGED <<appVars, env, cfgOut, runs, documents, chunks, exitStatus, count>>

\* vector_store.add_documents(chunks): creates the table when it is missing
\* and inserts one row per chunk.
AddDocuments(cs) ==
    /\ tableExists' = TRUE
    /\ rows' = [c \in AllChunks |-> IF c \in cs THEN rows[c] + 1 ELSE rows[c]]

\* A variant of Step8AddDocuments that goes on to the verification without
\* storing the chunks.
Step8Skipped ==
    /\ ipc = "step8"
    /\ ipc' = "step9"
    /\ UNCHANGED <<appVars, env, cfgOut, dbVars, runs, documents, chunks, calls, exc, exitStatus, count>>

\* Step 8: vector_store.add_documents(chunks).
Step8AddDocuments ==
    /\ ipc = "step8"
    /\ \/ /\ Goto("add_documents", "step9")
          /\ AddDocuments(chunks)
       \/ /\ Raise("add_documents", "Exception")
          /\ UNCHANGED dbVars
    /\ UNCHANGED <<appVars, env, cfgOut, runs, documents, chunks, exitStatus, count>>

\* Step 9: SELECT COUNT(*) FROM rag_documents, then connection.close().
Step9Verify ==
    /\ ipc = "step9"
    /\ \/ /\ tableExists
          /\ count' = CountRows(rows)
          /\ Goto("verify", "close")
       \/ /\ Raise("verify", "DatabaseError")
          /\ count' = count
    /\ UNCHANGED <<appVars, env, cfgOut, dbVars, runs, documents, chunks, exitStatus>>

\* connection.close() and the INGESTION COMPLETE banner; the script ends.
CloseAndComplete ==
    /\ ipc = "close"
    /\ \/ /\ Goto("close", "done")
          /\ exitStatus' = 0
       \/ /\ Raise("close", "Exception")
          /\ exitStatus' = exitStatus
    /\ UNCHANGED <<appVars, env, cfgOut, dbVars, runs, documents, chunks, count>>

\* A variant of the handler that starts the pipeline again.
HandlerRetries ==
    /\ ipc = "except"
    /\ ipc' = "step1"
    /\ UNCHANGED <<appVars, env, cfgOut, dbVars, runs, documents, chunks, calls, exc, exitStatus, count>>

\* `except Exception as e`: print the error, sys.exit(1).
IngestionHandler ==
    /\ ipc = "except"
    /\ ipc' = "exited"
    /\ exitStatus' = 1
    /\ UNCHANGED <<appVars, env, cfgOut, dbVars, runs, documents, chunks, calls, exc, count>>

IngestNext ==
    \/ StartIngestion
    \/ Step1LoadConfig
    \/ Step2LoadDocuments
    \/ Step3Split
    \/ Step4Embeddings
    \/ Step5Connect
    \/ Step6VectorStore
    \/ Step7DropTable
    \/ Step8AddDocuments
    \/ Step9Verify
    \/ CloseAndComplete
    \/ IngestionHandler

(***************************************************************************)
(* main_app.py                                                             *)
(***************************************************************************)
\* search_kwargs={'k': 3}
K == 3

Questions == {"q1", "q2"}
Answers == {"answer"}

NoServices == [qa_chain |-> 0, vector_store |-> 0]
NoResponse == [result |-> "", source_documents |-> <<>>]
NoPage == [elements |-> {}, answer |-> "", sources |-> <<>>, error |-> ""]

\* The chunks in the order of their similarity to a question, nearest first
\* (the order the embedding model and COSINE distance give).
Ranking(q) ==
    IF q = "q1"
    THEN <<[source |-> "a.txt", part |-> 1], [source |-> "a.txt", part |-> 2],
           [source |-> "b.txt", part |-> 1]>>
    ELSE <<[source |-> "b.txt", part |-> 1], [source |-> "a.txt", part |-> 2],
           [source |-> "a.txt", part |-> 1]>>

\* The rows of table r in the order of a ranking; equal rows lie together.
RECURSIVE Ranked(_, _)
Ranked(order, r) ==
    IF order = <<>> THEN <<>>
    ELSE [i \in 1..r[Head(order)] |-> Head(order)] \o Ranked(Tail(order), r)

Min(a, b) == IF a < b THEN a ELSE b

\* The retriever of search_type="similarity", search_kwargs={'k': 3}: the K
\* nearest rows, or all of them when the table holds fewer.
Retrieve(q, r) ==
    LET all == Ranked(Ranking(q), r)
    IN  SubSeq(all, 1, Min(K, Len(all)))

\* A browser event reruns the page script from the top.  The question and the
\* click come from the widgets the page shows; a page without them (a first
\* load, or a page that stopped at initialisation) gives the defaults.
Rerun ==
    /\ apc = "idle"
    /\ reruns < MaxReruns
    /\ reruns' = reruns + 1
    /\ \E q \in Questions \cup {""}, b \in BOOLEAN :
          /\ ~widgets => (q = "" /\ b = FALSE)
          /\ user_question' = q
          /\ ask_button' = b
    /\ apc' = "init"
    /\ history' = history \cup {i.query : i \in Range(invocations)}
    /\ services' = NoServices
    /\ invocations' = <<>>
    /\ response' = NoResponse
    /\ ui' = NoPage
    /\ UNCHANGED <<env, cfgOut, dbVars, ingestVars, cache, created, widgets>>

\* A variant of StopRun without the st.stop(): the script goes on.
ErrorWithoutStop(element, text) ==
    /\ ui' = [ui EXCEPT !.elements = @ \cup {element}, !.error = text]
    /\ apc' = "input"
    /\ widgets' = widgets

\* st.error(...) followed by st.stop() or sys.exit(1): the run ends, and the
\* page shows neither the widgets nor the sidebar.
StopRun(element, text) ==
    /\ ui' = [ui EXCEPT !.elements = @ \cup {element}, !.error = text]
    /\ apc' = "idle"
    /\ widgets' = FALSE

\* A variant of CacheHit that runs the body of initialize_services again.
CacheIgnored ==
    /\ created' = [created EXCEPT !.embeddings = @ + 1, !.llm = @ + 1, !.connection = @ + 1]
    /\ apc' = "init_vs"
    /\ UNCHANGED <<cache, services, ui, widgets>>

\* st.cache_resource with a cached value: the body does not run.
CacheHit ==
    /\ services' = cache
    /\ apc' = "input"
    /\ UNCHANGED <<cache, created, ui, widgets>>

\* initialize_services, lines 58-123: configuration, the two models, the
\* connection and the SELECT COUNT that verifies the table.
InitializeServices ==
    /\ apc = "init"
    /\ IF cache /= NoServices
       THEN CacheHit
       ELSE \/ /\ load_config(env).raised /= "none"
               /\ StopRun("init_error", "ValueError")
               /\ UNCHANGED <<cache, created, services>>
            \/ /\ load_config(env).raised = "none"
               /\ \/ /\ StopRun("init_error", "embeddings")
                     /\ UNCHANGED <<cache, created, services>>
                  \/ /\ StopRun("init_error", "llm")
                     /\ created' = [created EXCEPT !.embeddings = @ + 1]
                     /\ UNCHANGED <<cache, services>>
                  \/ /\ StopRun("init_error", "connect")
                     /\ created' = [created EXCEPT !.embeddings = @ + 1, !.llm = @ + 1]
                     /\ UNCHANGED <<cache, services>>
                  \/ /\ ~tableExists
                     /\ StopRun("table_missing", "DatabaseError")
                     /\ created' = [created EXCEPT !.embeddings = @ + 1, !.llm = @ + 1,
                                                   !.connection = @ + 1]
                     /\ UNCHANGED <<cache, services>>
                  \/ /\ tableExists
                     /\ created' = [created EXCEPT !.embeddings = @ + 1, !.llm = @ + 1,
                                                   !.connection = @ + 1]
                     /\ apc' = "init_vs"
                     /\ UNCHANGED <<cache, services, ui, widgets>>
    /\ UNCHANGED <<env, cfgOut, dbVars, ingestVars, reruns, user_question, ask_button,
                   history, invocations, response>>

\* A variant of VectorStoreForQuery built with OracleVS.from_documents, which
\* embeds and inserts the documents it is given.
VectorStoreFromDocuments == AddDocuments(AllChunks)

\* vector_store = OracleVS(...) of initialize_services: wraps the connection.
VectorStoreForQuery == OracleVSInit

\* initialize_services, lines 129-201: the vector store, the retriever, the
\* prompt and the chain; the pair returned is cached.
InitializeChain ==
    /\ apc = "init_vs"
    /\ \/ /\ StopRun("init_error", "vector_store")
          /\ UNCHANGED <<dbVars, cache, created, services>>
       \/ /\ VectorStoreForQuery
          /\ StopRun("init_error", "chain")
          /\ UNCHANGED <<cache, created, services>>
       \/ /\ VectorStoreForQuery
          /\ created' = [created EXCEPT !.chain = @ + 1]
          /\ cache' = [qa_chain |-> created.chain + 1, vector_store |-> created.chain + 1]
          /\ services' = cache'
          /\ apc' = "input"
          /\ UNCHANGED <<ui, widgets>>
    /\ UNCHANGED <<env, cfgOut, ingestVars, reruns, user_question, ask_button,
                   history, invocations, response>>

\* A variant of ChainInput that passes the earlier questions along.
ChainInputWithHistory == [query |-> user_question, chat_history |-> history]

\* The argument of qa_chain.invoke.
ChainInput == [query |-> user_question]

\* A variant of ShowError that leaves out the Troubleshooting Tips.
ShowErrorOnly(page, text) ==
    [page EXCEPT !.elements = @ \cup {"error"}, !.error = text]

\* The except branch of the query: st.error with the exception text and the
\* Troubleshooting Tips expander.
ShowError(page, text) ==
    [page EXCEPT !.elements = @ \cup {"error", "tips"}, !.error = text]

\* st.info(response["result"])
ShowAnswer(page, r) ==
    [page EXCEPT !.elements = @ \cup {"answer_header", "answer"}, !.answer = r.result]

\* The Sources Used section: one expander per returned document, or a warning.
ShowSources(page, r) ==
    [page EXCEPT !.elements = @ \cup (IF r.source_documents /= <<>> THEN {"sources"} ELSE {"no_sources"}),
                 !.sources = [i \in DOMAIN r.source_documents |-> r.source_documents[i].source]]

\* A variant of the query branch that asks the chain whenever the button is clicked.
ShouldAskIgnoringText == ask_button

\* `if ask_button and user_question`
ShouldAsk == ask_button /\ user_question /= ""

\* Lines 239-339: the widgets, then the query and the rendering of its result.
ProcessQuery ==
    /\ apc = "input"
    /\ widgets' = TRUE
    /\ apc' = "sidebar"
    /\ IF ShouldAsk
       THEN /\ invocations' = Append(invocations, ChainInput)
            /\ \/ /\ response' = NoResponse
                  /\ ui' = ShowError(ui, "invoke")
               \/ /\ tableExists
                  /\ \E a \in Answers :
                        response' = [result |-> a, source_documents |-> Retrieve(user_question, rows)]
                  /\ \/ ui' = ShowError([ui EXCEPT !.elements = @ \cup {"answer_header"}], "answer")
                     \/ ui' = ShowError(ShowAnswer(ui, response'), "sources")
                     \/ ui' = ShowSources(ShowAnswer(ui, response'), response')
       ELSE /\ invocations' = invocations
            /\ response' = response
            /\ IF ask_button
               THEN ui' = [ui EXCEPT !.elements = @ \cup {"warning"}]
               ELSE ui' = ui
    /\ UNCHANGED <<env, cfgOut, dbVars, ingestVars, cache, created, reruns, user_question,
                   ask_button, history, services>>

\* Lines 344-404: the sidebar with the system status, then the footer.
SidebarAndFooter ==
    /\ apc = "sidebar"
    /\ apc' = "idle"
    /\ \/ /\ tableExists
          /\ ui' = [ui EXCEPT !.elements = @ \cup {"sidebar", "status_ok", "footer"}]
       \/ ui' = [ui EXCEPT !.elements = @ \cup {"sidebar", "status_error", "footer"}]
    /\ UNCHANGED <<env, cfgOut, dbVars, ingestVars, cache, created, reruns, widgets,
                   user_question, ask_button, history, services, invocations, response>>

AppNext ==
    \/ Rerun
    \/ InitializeServices
    \/ InitializeChain
    \/ ProcessQuery
    \/ SidebarAndFooter

(***************************************************************************)
(* The specifications                                                      *)
(***************************************************************************)
AllSet == [v \in EnvVars |-> "v"]

\* The environments the two scripts are run in: complete, one variable unset,
\* one variable empty.
EnvSamples ==
    {AllSet, [AllSet EXCEPT !["OCI_REGION"] = None], [AllSet EXCEPT !["DB_DSN"] = ""]}

InitRest ==
    /\ cfgOut = NotCalled
    /\ tableExists = FALSE
    /\ rows = NoRows
    /\ ipc = "idle"
    /\ runs = 0
    /\ documents = {}
    /\ chunks = {}
    /\ calls = <<>>
    /\ exc = "none"
    /\ exitStatus = NoStatus
    /\ count = NoStatus
    /\ cache = NoServices
    /\ created = [embeddings |-> 0, llm |-> 0, connection |-> 0, chain |-> 0]
    /\ apc = "idle"
    /\ reruns = 0
    /\ widgets = FALSE
    /\ user_question = ""
    /\ ask_button = FALSE
    /\ history = {}
    /\ services = NoServices
    /\ invocations = <<>>
    /\ response = NoResponse
    /\ ui = NoPage

Init ==
    /\ env \in EnvSamples
    /\ InitRest

Next ==
    \/ IngestNext
    \/ AppNext

Spec == Init /\ [][Next]_vars

\* `python config_loader.py`: the standalone test calls load_config once.
TestLoadConfig ==
    /\ cfgOut = NotCalled
    /\ cfgOut' = load_config(env)
    /\ UNCHANGED <<env, dbVars, ingestVars, appVars>>

InitConfig ==
    /\ env \in [EnvVars -> EnvValues]
    /\ InitRest

SpecConfig == InitConfig /\ [][TestLoadConfig]_vars

(***************************************************************************)
(* C1: load_config returns the pair of dictionaries exactly when all nine  *)
(* variables are set to non-empty values; otherwise it raises ValueError   *)
(* and returns nothing; every value of a returned dictionary is non-empty. *)
(***************************************************************************)
C1_LoadConfigIffAllSet ==
    cfgOut /= NotCalled =>
        /\ (cfgOut.raised = "none") <=> (\A v \in EnvVars : env[v] /= None /\ env[v] /= "")
        /\ cfgOut.raised /= "none" =>
              /\ cfgOut.raised = "ValueError"
              /\ cfgOut.oci = <<>>
              /\ cfgOut.db = <<>>
        /\ cfgOut.raised = "none" =>
              /\ DOMAIN cfgOut.oci = Range(OciKeys)
              /\ DOMAIN cfgOut.db = Range(DbKeys)
              /\ \A k \in Range(OciKeys) : cfgOut.oci[k] = env[EnvVarOf(k)] /\ cfgOut.oci[k] \notin {None, ""}
              /\ \A k \in Range(DbKeys) : cfgOut.db[k] = env[EnvVarOf(k)] /\ cfgOut.db[k] \notin {None, ""}

\* load_config was called with every variable set, one of them to "".
C1_Witness ==
    /\ cfgOut.raised = "ValueError"
    /\ \A v \in EnvVars : env[v] /= None
    /\ env["DB_PASSWORD"] = ""

(***************************************************************************)
(* C2: a run that reaches INGESTION COMPLETE has loaded, split, created    *)
(* the embeddings, stored and verified, in that order and once each, and   *)
(* its verification count was read after add_documents returned, so it     *)
(* counts the rows this run stored.                                        *)
(***************************************************************************)
PipelineSteps == {"load", "split", "embed", "add_documents", "verify"}

C2_PipelineOrder ==
    ipc = "done" =>
        /\ SelectSeq(calls, LAMBDA c : c \in PipelineSteps)
              = <<"load", "split", "embed", "add_documents", "verify">>
        /\ count = CountRows(rows)
        /\ count >= Cardinality(chunks)
        /\ \A c \in chunks : rows[c] >= 1

\* A run completed after storing the three chunks of two documents.
C2_Witness ==
    /\ ipc = "done"
    /\ exitStatus = 0
    /\ documents = {"a.txt", "b.txt"}
    /\ count = 3

(***************************************************************************)
(* C3: within one run no step is attempted twice, and an exception that    *)
(* leaves a step (any but a DatabaseError of the DROP TABLE) ends the run  *)
(* with exit status 1: no further step is attempted, and the table is left *)
(* as the earlier steps made it.                                           *)
(***************************************************************************)
NoStepTwice == \A i, j \in DOMAIN calls : calls[i] = calls[j] => i = j

C3_NoRetryNoRecovery ==
    /\ [](NoStepTwice)
    /\ [][(exc = "none" /\ exc' /= "none") => ipc' = "except"]_vars
    /\ [][(ipc = "except" /\ ipc' /= "except") =>
            (ipc' = "exited" /\ exitStatus' = 1 /\ calls' = calls /\ dbVars' = dbVars)]_vars
    /\ [][(ipc = "exited" /\ ipc' /= "step1") =>
            (ipc' = "exited" /\ exitStatus' = 1 /\ calls' = calls)]_vars

\* add_documents raised after the table had been dropped: the run has ended
\* with status 1 and the table is still gone.
C3_Witness ==
    /\ ipc = "exited"
    /\ exitStatus = 1
    /\ exc /= "none"
    /\ calls[Len(calls)] = "add_documents"
    /\ ~tableExists

(***************************************************************************)
(* C4: after a successful run the table holds exactly the chunks of that   *)
(* run, one row each, and none of an earlier run.                          *)
(***************************************************************************)
C4_CleanState ==
    ipc = "done" => rows = [c \in AllChunks |-> IF c \in chunks THEN 1 ELSE 0]

C6_NoSessionState ==
    /\ \A i \in DOMAIN invocations : invocations[i] = [query |-> user_question]
    /\ "answer" \in ui.elements => ui.answer = response.result
    /\ "sources" \in ui.elements =>
          ui.sources = [i \in DOMAIN response.source_documents |-> response.source_documents[i].source]

\* A question answered in a session that had asked another question before.
C6_Witness ==
    /\ history = {"q1"}
    /\ user_question = "q2"
    /\ invocations = <<[query |-> "q2"]>>
    /\ "answer" \in ui.elements
    /\ "sources" \in ui.elements

(***************************************************************************)
(* C7: no step of the page script changes the rows of rag_documents.       *)
(***************************************************************************)
C7_AppNeverWrites == [][appVars' /= appVars => rows' = rows]_vars

\* A run initialised the services, answered a question and showed the status
\* while the table held rows.
C7_Witness ==
    /\ apc = "idle"
    /\ created.chain = 1
    /\ invocations /= <<>>
    /\ "status_ok" \in ui.elements
    /\ CountRows(rows) > 0

(***************************************************************************)
(* C8: when qa_chain.invoke or the display of response["result"] raises,   *)
(* the page shows the error text and the tips and no answer box; after any *)
(* error of the query the run still renders the sidebar and the footer and *)
(* leaves the widgets on the page for the next question.                   *)
(***************************************************************************)
C8_QueryFailureIsShown ==
    "error" \in ui.elements =>
        /\ "tips" \in ui.elements
        /\ ui.error /= ""
        /\ ui.error \in {"invoke", "answer"} => "answer" \notin ui.elements
        /\ apc \in {"sidebar", "idle"}
        /\ widgets
        /\ apc = "idle" => {"sidebar", "footer"} \subseteq ui.elements

\* qa_chain.invoke raised; the run has ended.
C8_Witness ==
    /\ apc = "idle"
    /\ ui.error = "invoke"
    /\ invocations /= <<>>
    /\ "footer" \in ui.elements

(***************************************************************************)
(* C9: qa_chain.invoke is called only in a run in which initialize_services*)
(* returned a pair: never in a run that found no table, or in which the    *)
(* configuration, a model, the connection or the chain failed.             *)
(***************************************************************************)
C9_InvokeOnlyAfterInit ==
    /\ invocations /= <<>> => (services /= NoServices /\ services = cache)
    /\ ({"init_error", "table_missing"} \cap ui.elements /= {}) =>
          (invocations = <<>> /\ apc = "idle" /\ services = NoServices)

\* A run stopped because the table did not exist.
C9_Witness ==
    /\ "table_missing" \in ui.elements
    /\ ~tableExists
    /\ apc = "idle"
    /\ invocations = <<>>

(***************************************************************************)
(* C10: a page run invokes the chain at most once; a run that has ended    *)
(* invoked it exactly once if the button was clicked with a non-empty      *)
(* question; not at all, showing the warning, if it was clicked with an    *)
(* empty question; and not at all, showing neither answer nor warning, if  *)
(* it was not clicked.                                                     *)
(***************************************************************************)
RunEnded == apc = "idle" /\ reruns > 0

C10_InvokedIffAsked ==
    /\ Len(invocations) <= 1
    /\ "warning" \in ui.elements => (ask_button /\ user_question = "")
    /\ RunEnded =>
          /\ (ask_button /\ user_question /= "") => Len(invocations) = 1
          /\ (ask_button /\ user_question = "") =>
                (invocations = <<>> /\ "warning" \in ui.elements)
          /\ ~ask_button =>
                (invocations = <<>> /\ "answer" \notin ui.elements /\ "warning" \notin ui.elements)

\* The button was clicked with an empty question.
C10_Witness ==
    /\ RunEnded
    /\ ask_button
    /\ user_question = ""
    /\ "warning" \in ui.elements

(***************************************************************************)
(* C11: in the Sources Used section no source file is shown in more than   *)
(* one entry, whatever list of source documents the chain returned.        *)
(***************************************************************************)
C11_UniqueSources ==
    "sources" \in ui.elements =>
        \A i, j \in DOMAIN ui.sources : ui.sources[i] = ui.sources[j] => i = j

====
